---- MODULE Spec2Model ----
(***************************************************************************)
(* TASAUTO backend (src/main.py): the POST /api/tasar endpoint `tasar` and *)
(* the scraping run `tasar_en_coches_net` it awaits.                       *)
(*                                                                         *)
(* One behaviour is one request.  The browser and the third-party page are *)
(* the environment: every Playwright call is a nondeterministic choice     *)
(* among the outcomes it can have (visible / hidden / raises, ok / raises  *)
(* TimeoutError / raises another Error, the text it returns).              *)
(* page.wait_for_timeout is a plain sleep and browser.close() is taken to  *)
(* complete; neither is given a failing outcome.                           *)
(*                                                                         *)
(* Texts are sequences over Alphabet: "1" stands for any digit, " " for    *)
(* whitespace, "E" for the euro sign and "x" for any other character.      *)
(* The texts the page yields during a run are drawn from RunAlphabet; the  *)
(* separator "." only matters to the regular expression of line 347, which *)
(* SpecClean runs on the texts over the whole Alphabet.                    *)
(* form_found is read once, right after its loop (line 147), so it is kept *)
(* in the control position: "scroll" is reached only with it False.        *)
(***************************************************************************)
EXTENDS Integers, Sequences, FiniteSets, TLC

VARIABLES
    pc,             \* position of the request in tasar / tasar_en_coches_net
    data,           \* the TasacionRequest
    launched,       \* successful p.chromium.launch() calls
    closed,         \* browser.close() calls
    i,              \* index of the selector being tried in the current loop
    tried,          \* outcomes of the selectors tried so far in the form block
    field,          \* per form field: how far its block got
    valor,          \* valor
    resultSeen,     \* some result selector was visible
    scanned,        \* page.content() was searched (the `if not valor` block)
    exc,            \* exception in flight / that left tasar_en_coches_net
    snapshot,       \* page.screenshot() in the except clauses:
                    \* "none", "saved", "failed"
    retval,         \* value returned by tasar_en_coches_net
    response,       \* the TasacionResponse
    other,          \* position of a second request served at the same time
    errorShot       \* whose screenshot the file /tmp/error_screenshot.png
                    \* holds: "absent", "this", "other"

vars == <<pc, data, launched, closed, i, tried, field, valor, resultSeen, scanned,
          exc, snapshot, retval, response, other, errorShot>>

----------------------------------------------------------------------------
(* Bounds *)

\* longest text a page element or the page markup yields in the run
MaxLen == 2

\* longest text handed to the value clean-up on its own
MaxCleanLen == 4

----------------------------------------------------------------------------
(* Texts *)

None == <<"None">>

Alphabet == {"1", ".", " ", "E", "x"}

RunAlphabet == {"1", " ", "E", "x"}

RECURSIVE TextsOfLen(_, _)
TextsOfLen(abc, n) ==
    IF n = 0 THEN {<<>>}
    ELSE {Append(t, c) : t \in TextsOfLen(abc, n - 1), c \in abc}

Texts(abc, n) == UNION {TextsOfLen(abc, k) : k \in 0..n}

\* what result.text_content() can return, and page.content()
ElementTexts == Texts(RunAlphabet, MaxLen) \cup {None}
PageTexts == Texts(RunAlphabet, MaxLen)

\* the texts the clean-up of lines 345-351 is run on by SpecClean
CleanTexts == Texts(Alphabet, MaxCleanLen) \cup {None}

NumChars   == {"1", "."}               \* [\d.,]
DigitChars == {"1"}                 \* \d
SpaceChars == {" "}                 \* \s

IsDigit(c) == c \in DigitChars
IsSpace(c) == c \in SpaceChars
IsEuro(c)  == c = "E"

\* Python truthiness of an optional str
Truthy(t) == t # None /\ t # <<>>

\* "€" in valor
HasEuro(t) == \E k \in 1..Len(t) : IsEuro(t[k])

\* length of the longest run of characters of class cls that starts at k
RECURSIVE RunLen(_, _, _)
RunLen(t, k, cls) ==
    IF k > Len(t) \/ t[k] \notin cls THEN 0 ELSE 1 + RunLen(t, k + 1, cls)

\* str.strip()
RECURSIVE LStrip(_)
LStrip(t) == IF t # <<>> /\ IsSpace(Head(t)) THEN LStrip(Tail(t)) ELSE t

RECURSIVE RStrip(_)
RStrip(t) ==
    IF t # <<>> /\ IsSpace(t[Len(t)]) THEN RStrip(SubSeq(t, 1, Len(t) - 1))
    ELSE t

Strip(t) == RStrip(LStrip(t))

\* end position of the match of  [\d.,]+\s*€  starting at k, 0 if none
CleanEndAt(t, k) ==
    LET n == RunLen(t, k, NumChars)
        m == RunLen(t, k + n, SpaceChars)
        e == k + n + m
    IN  IF n >= 1 /\ e <= Len(t) /\ IsEuro(t[e]) THEN e ELSE 0

\* re.search(r'[\d.,]+\s*€', valor): group(0) of the leftmost match, or None
CleanSearch(t) ==
    LET starts == {k \in 1..Len(t) : CleanEndAt(t, k) # 0}
    IN  IF starts = {} THEN None
        ELSE LET k == CHOOSE s \in starts : \A s2 \in starts : s <= s2
             IN  SubSeq(t, k, CleanEndAt(t, k))

\* number of  \.\d{3}  groups matched greedily from k
RECURSIVE ThousandGroups(_, _)
ThousandGroups(t, k) ==
    IF k + 3 <= Len(t) /\ t[k] = "." /\ IsDigit(t[k + 1])
          /\ IsDigit(t[k + 2]) /\ IsDigit(t[k + 3])
    THEN 1 + ThousandGroups(t, k + 4)
    ELSE 0

\* end position of the match of  (\d{1,3}(?:\.\d{3})*)\s*€  starting at k,
\* 0 if none
PriceEndAt(t, k) ==
    LET d == RunLen(t, k, DigitChars)
        g == ThousandGroups(t, k + d)
        m == RunLen(t, k + d + 4 * g, SpaceChars)
        e == k + d + 4 * g + m
    IN  IF d >= 1 /\ d <= 3 /\ e <= Len(t) /\ IsEuro(t[e]) THEN e ELSE 0

\* re.search(r'(\d{1,3}(?:\.\d{3})*)\s*€', all_text): group(0), or None
PriceSearch(t) ==
    LET starts == {k \in 1..Len(t) : PriceEndAt(t, k) # 0}
    IN  IF starts = {} THEN None
        ELSE LET k == CHOOSE s \in starts : \A s2 \in starts : s <= s2
             IN  SubSeq(t, k, PriceEndAt(t, k))

----------------------------------------------------------------------------
(* Messages, exceptions, responses *)

\* tasar, line 390
GenericError == <<"No se ha podido obtener la tasacion en este momento.">>
\* line 186
MsgMarca == <<"No se pudo encontrar el formulario de marca">>
\* line 353
MsgNoResult == <<"No se encontro el resultado de la tasacion">>
\* line 362
MsgTimeout == <<"La pagina tardo demasiado en responder">>
\* text of the errors Playwright raises: they quote the selector waited for
MsgPwTimeout == <<"Timeout exceeded. waiting for locator(selector)">>
MsgPwError == <<"Error: locator(selector): target closed">>

NoExc == [type |-> "None", msg |-> None]
PwTimeout == [type |-> "PlaywrightTimeout", msg |-> MsgPwTimeout]
PwError == [type |-> "Error", msg |-> MsgPwError]
PyException(m) == [type |-> "Exception", msg |-> m]

\* what an awaited Playwright call can raise
PwRaises == {PwTimeout, PwError}

\* TasacionResponse(ok=True, valor=valor), line 385
RespOk(v) == [ok |-> TRUE, valor |-> v, error |-> None]

\* variant: the error field is left unset
RespErrorNoMessage(e) == [ok |-> FALSE, valor |-> None, error |-> None]

\* variant: the response carries str(e)
RespErrorLeak(e) == [ok |-> FALSE, valor |-> None, error |-> e.msg]

\* TasacionResponse(ok=False, error=...), lines 388-391
RespError(e) == [ok |-> FALSE, valor |-> None, error |-> GenericError]

----------------------------------------------------------------------------
(* The request *)

Versions == {<<>>, <<"FR">>}

Requests ==
    [marca : {<<"Seat">>}, modelo : {<<"Ibiza">>}, version : Versions,
     anio : {2018}, kms : {85000}]

\* variant: the model block is run before the brand block
StepsModeloFirst == <<"modelo", "marca", "anio", "km", "cp", "submit">>

\* the form blocks of tasar_en_coches_net, in the order the function runs them
Steps == <<"marca", "modelo", "anio", "km", "cp", "submit">>

Fields == {Steps[k] : k \in 1..Len(Steps)}

StepIndex(f) == CHOOSE k \in 1..Len(Steps) : Steps[k] = f

\* where control goes when block f is finished
AfterStep(f) ==
    IF StepIndex(f) < Len(Steps) THEN Steps[StepIndex(f) + 1] ELSE "result"

NoResponse == [ok |-> FALSE, valor |-> None, error |-> None]

Init ==
    /\ pc = "tasar"
    /\ data \in Requests
    /\ launched = 0
    /\ closed = 0
    /\ i = 0
    /\ tried = <<>>
    /\ field = [f \in Fields |-> "unset"]
    /\ valor = None
    /\ resultSeen = FALSE
    /\ scanned = FALSE
    /\ exc = NoExc
    /\ snapshot = "none"
    /\ retval = None
    /\ response = NoResponse
    /\ other = "idle"
    /\ errorShot = "absent"

----------------------------------------------------------------------------
(* Control flow helpers *)

resultVars == <<valor, resultSeen, scanned>>
browserVars == <<launched, closed>>
endVars == <<snapshot, errorShot, retval, response>>

\* an exception raised inside the try block (lines 79-353) is dispatched to
\* `except PlaywrightTimeout` (355) or `except Exception` (363)
Raise(e) ==
    /\ exc' = e
    /\ pc' = IF e.type = "PlaywrightTimeout" THEN "except_timeout"
             ELSE "except_other"
    /\ i' = 0
    /\ tried' = <<>>

\* an exception raised before the try block leaves tasar_en_coches_net
\* without passing through its except / finally clauses
RaiseOutsideTry(e) ==
    /\ exc' = e
    /\ pc' = "tasar_except"
    /\ i' = 0
    /\ tried' = <<>>

\* control moves to p; a selector loop starts at its first selector
Goto(p, loop) ==
    /\ pc' = p
    /\ i' = IF loop THEN 1 ELSE 0
    /\ tried' = <<>>

LoopPcs == Fields \cup {"cookies", "form", "result"}

\* `continue` / loop exhaustion in a selector loop of n selectors
Continue(n, after) ==
    IF i < n THEN pc' = pc /\ i' = i + 1 /\ UNCHANGED tried
    ELSE Goto(after, after \in LoopPcs)

\* the same in a loop of a form block, whose selector had outcome r
ContinueField(n, after, r) ==
    IF i < n THEN pc' = pc /\ i' = i + 1 /\ tried' = Append(tried, r)
    ELSE Goto(after, after \in LoopPcs)

----------------------------------------------------------------------------
(* tasar: lines 375-384 *)

Tasar ==
    /\ pc = "tasar"
    /\ Goto("launch", FALSE)
    /\ UNCHANGED <<data, other, browserVars, field,
                   resultVars, exc, endVars>>

(* tasar_en_coches_net: session set-up, lines 61-77 *)

Launch ==
    /\ pc = "launch"
    /\ \/ /\ launched' = launched + 1
          /\ Goto("new_context", FALSE)
          /\ UNCHANGED exc
       \/ /\ \E e \in PwRaises : RaiseOutsideTry(e)
          /\ UNCHANGED launched
    /\ UNCHANGED <<data, other, closed, field, resultVars,
                   endVars>>

NewContext ==
    /\ pc = "new_context"
    /\ \/ Goto("new_page", FALSE) /\ UNCHANGED exc
       \/ \E e \in PwRaises : RaiseOutsideTry(e)
    /\ UNCHANGED <<data, other, browserVars, field,
                   resultVars, endVars>>

NewPage ==
    /\ pc = "new_page"
    /\ \/ Goto("goto", FALSE) /\ UNCHANGED exc
       \/ \E e \in PwRaises : RaiseOutsideTry(e)
    /\ UNCHANGED <<data, other, browserVars, field,
                   resultVars, endVars>>

(* navigation, lines 80-85 *)

Navigate ==
    /\ pc = "goto"
    /\ \/ Goto("cookies", TRUE) /\ UNCHANGED exc
       \/ \E e \in PwRaises : Raise(e)
    /\ UNCHANGED <<data, other, browserVars, field,
                   resultVars, endVars>>

(* cookie banner, lines 87-110 *)

NumCookieSelectors == 6

\* variant: the click on the cookie button is outside the inner try
CookieTryClickUnguarded ==
    /\ pc = "cookies"
    /\ \E r \in {"hidden", "raises", "click_raises", "clicked"} :
          IF r = "clicked"
          THEN Goto("cookies_accepted", FALSE) /\ UNCHANGED exc
          ELSE IF r = "click_raises"
          THEN Raise(PwTimeout)
          ELSE Continue(NumCookieSelectors, "load_state") /\ UNCHANGED exc
    /\ UNCHANGED <<data, other, browserVars, field, resultVars, endVars>>

CookieTry ==
    /\ pc = "cookies"
    /\ \E r \in {"hidden", "raises", "click_raises", "clicked"} :
          IF r = "clicked"
          THEN Goto("cookies_accepted", FALSE)
          ELSE Continue(NumCookieSelectors, "load_state")
    /\ UNCHANGED <<data, other, browserVars, field, resultVars, exc,
                   endVars>>

\* after a click that did not raise: log, wait, break (lines 104-106)
CookiesAccepted ==
    /\ pc = "cookies_accepted"
    /\ Goto("load_state", FALSE)
    /\ UNCHANGED <<data, other, browserVars, field, resultVars, exc,
                   endVars>>

(* lines 112-115 *)

LoadState ==
    /\ pc = "load_state"
    /\ \/ Goto("page_shot", FALSE) /\ UNCHANGED exc
       \/ \E e \in PwRaises : Raise(e)
    /\ UNCHANGED <<data, other, browserVars, field,
                   resultVars, endVars>>

(* /tmp/page_loaded.png, lines 117-122: a failure is swallowed *)

PageShot ==
    /\ pc = "page_shot"
    /\ \E ok \in BOOLEAN : Goto("form", TRUE)
    /\ UNCHANGED <<data, other, browserVars, field,
                   resultVars, exc, endVars>>

(* form search, lines 124-145 *)

NumFormSelectors == 6

FormTry ==
    /\ pc = "form"
    /\ \E r \in {"hidden", "raises", "visible"} :
          IF r = "visible"
          THEN Goto(Steps[1], TRUE)
          ELSE Continue(NumFormSelectors, "scroll")
    /\ UNCHANGED <<data, other, browserVars, field, resultVars, exc,
                   endVars>>

\* if not form_found: page.evaluate("window.scrollTo(0, 500)"), lines 147-150
Scroll ==
    /\ pc = "scroll"
    /\ \/ Goto(Steps[1], TRUE) /\ UNCHANGED exc
       \/ Raise(PwError)
    /\ UNCHANGED <<data, other, browserVars, field,
                   resultVars, endVars>>

----------------------------------------------------------------------------
(* Form blocks, lines 152-312.  While control is in block f, field[f] says *)
(* where: "unset"/"searching" in the selector loop, "found"/"notfound" at  *)
(* the `if ..._dropdown:` test, "opened" at the option's is_visible.       *)
(* field["submit"] = "click_failed": a submit_btn.click() raised and none  *)
(* has succeeded so far.  tried lists what the selectors of the block gave *)
(* so far; it is emptied when control leaves the block.                    *)

NumMarcaSelectors == 4
NumModeloSelectors == 3
NumAnioSelectors == 3
NumKmSelectors == 4
NumCpSelectors == 4
NumSubmitSelectors == 5

Enter(f) == Goto(AfterStep(f), AfterStep(f) \in LoopPcs)

\* variant: no dropdown block has an `else: raise` branch
RaisesIfMissingNever(f) == FALSE

\* the dropdown blocks with an `else: raise` branch (lines 184-186)
RaisesIfMissing(f) == f = "marca"

\* for selector in ..._selectors: dropdown.is_visible(timeout=3000)
SelectTry(f, n) ==
    /\ pc = f
    /\ field[f] \in {"unset", "searching"}
    /\ \E r \in {"hidden", "raises", "visible"} :
          /\ tried' = Append(tried, r)
          /\ IF r = "visible"
             THEN field' = [field EXCEPT ![f] = "found"] /\ UNCHANGED <<pc, i>>
             ELSE /\ field' = [field EXCEPT
                              ![f] = IF i < n THEN "searching" ELSE "notfound"]
                  /\ pc' = pc
                  /\ i' = IF i < n THEN i + 1 ELSE i
    /\ UNCHANGED <<data, other, browserVars, 
                   resultVars, exc, endVars>>

\* if ..._dropdown: await ..._dropdown.click()  [else: raise]
SelectOpen(f) ==
    /\ pc = f
    /\ \/ /\ field[f] = "found"
          /\ \/ /\ field' = [field EXCEPT ![f] = "opened"]
                /\ UNCHANGED <<pc, i, tried, exc>>
             \/ /\ \E e \in PwRaises : Raise(e)
                /\ UNCHANGED field
       \/ /\ field[f] = "notfound"
          /\ IF RaisesIfMissing(f)
             THEN Raise(PyException(MsgMarca))
             ELSE Enter(f) /\ UNCHANGED exc
          /\ UNCHANGED field
    /\ UNCHANGED <<data, other, browserVars, 
                   resultVars, endVars>>

\* if await ..._option.is_visible(timeout=3000): await ..._option.click()
SelectOption(f) ==
    /\ pc = f
    /\ field[f] = "opened"
    /\ \/ /\ \E r \in {"nooption", "selected"} :
                field' = [field EXCEPT ![f] = r]
          /\ Enter(f)
          /\ UNCHANGED exc
       \/ /\ \E e \in PwRaises : Raise(e)
          /\ UNCHANGED field
    /\ UNCHANGED <<data, other, browserVars, 
                   resultVars, endVars>>

\* for selector in ..._selectors: if visible: fill(...); break
FillTry(f, n) ==
    /\ pc = f
    /\ \E r \in {"hidden", "raises", "fill_raises", "filled"} :
          IF r = "filled"
          THEN field' = [field EXCEPT ![f] = "filled"] /\ Enter(f)
          ELSE /\ field' = [field EXCEPT
                              ![f] = IF i < n THEN "searching" ELSE "notfound"]
               /\ ContinueField(n, AfterStep(f), r)
    /\ UNCHANGED <<data, other, browserVars, 
                   resultVars, exc, endVars>>

(* === MARCA ===, lines 152-186 *)
MarcaTry == SelectTry("marca", NumMarcaSelectors)
MarcaOpen == SelectOpen("marca")
MarcaOption == SelectOption("marca")

(* === MODELO ===, lines 188-218 *)
ModeloTry == SelectTry("modelo", NumModeloSelectors)
ModeloOpen == SelectOpen("modelo")
ModeloOption == SelectOption("modelo")

(* === ANIO ===, lines 220-247 *)
AnioTry == SelectTry("anio", NumAnioSelectors)
AnioOpen == SelectOpen("anio")
AnioOption == SelectOption("anio")

\* variant: a version block ahead of the mileage block that raises when a
\* requested version has no visible dropdown
KmTryAfterFatalVersion ==
    \/ /\ pc = "km"
       /\ field["km"] = "unset"
       /\ data.version # <<>>
       /\ Raise(PyException(<<"No se pudo encontrar el formulario de version">>))
       /\ UNCHANGED <<data, other, browserVars, field, resultVars, endVars>>
    \/ FillTry("km", NumKmSelectors)

(* === KILOMETROS ===, lines 249-269 *)
KmTry == FillTry("km", NumKmSelectors)

(* === CODIGO POSTAL ===, lines 271-291 *)
CpTry == FillTry("cp", NumCpSelectors)

(* === ENVIAR FORMULARIO ===, lines 293-316 *)
SubmitTry ==
    /\ pc = "submit"
    /\ \E r \in {"hidden", "raises", "click_raises", "clicked"} :
          IF r = "clicked"
          THEN field' = [field EXCEPT !["submit"] = "clicked"]
               /\ Enter("submit")
          ELSE /\ field' = [field EXCEPT !["submit"] =
                     IF r = "click_raises" \/ field["submit"] = "click_failed"
                     THEN "click_failed"
                     ELSE IF i < NumSubmitSelectors THEN "searching"
                     ELSE "notfound"]
               /\ ContinueField(NumSubmitSelectors, AfterStep("submit"), r)
    /\ UNCHANGED <<data, other, browserVars, resultVars, exc,
                   endVars>>

----------------------------------------------------------------------------
(* Result extraction, lines 318-353 *)

NumResultSelectors == 5

\* for selector in result_selectors, lines 328-336
ResultTry ==
    /\ pc = "result"
    /\ \/ /\ \E r \in {"hidden", "raises"} :
                Continue(NumResultSelectors, "scan")
          /\ UNCHANGED <<valor, resultSeen>>
       \/ /\ resultSeen' = TRUE
          /\ \/ \* text_content() raises
                /\ Continue(NumResultSelectors, "scan")
                /\ UNCHANGED valor
             \/ \E t \in ElementTexts :
                   /\ valor' = t
                   /\ IF Truthy(t) /\ HasEuro(t)
                      THEN Goto("scan", FALSE)
                      ELSE Continue(NumResultSelectors, "scan")
    /\ UNCHANGED <<data, other, browserVars, field, scanned,
                   exc, endVars>>

\* if not valor: search the page markup, lines 338-343
Fallback ==
    /\ pc = "scan"
    /\ IF Truthy(valor)
       THEN Goto("clean", FALSE) /\ UNCHANGED <<valor, scanned, exc>>
       ELSE \/ /\ \E all_text \in PageTexts :
                     valor' = IF PriceSearch(all_text) # None
                              THEN PriceSearch(all_text) ELSE valor
               /\ scanned' = TRUE
               /\ Goto("clean", FALSE)
               /\ UNCHANGED exc
            \/ Raise(PwError) /\ UNCHANGED <<valor, scanned>>
    /\ UNCHANGED <<data, other, browserVars, field,
                   resultSeen, endVars>>

\* lines 346-351: the text returned for a truthy valor
CleanValor(v) ==
    Strip(IF CleanSearch(v) # None THEN CleanSearch(v) ELSE v)

\* variant: an empty value is returned instead of raising
CleanNoRaise ==
    /\ pc = "clean"
    /\ retval' = IF Truthy(valor) THEN CleanValor(valor) ELSE <<>>
    /\ Goto("finally", FALSE)
    /\ UNCHANGED <<data, other, browserVars, field, resultVars, exc, snapshot, errorShot,
                   response>>

\* if valor: ... return valor.strip()  else: raise, lines 345-353
Clean ==
    /\ pc = "clean"
    /\ IF Truthy(valor)
       THEN /\ retval' = CleanValor(valor)
            /\ Goto("finally", FALSE)
            /\ UNCHANGED exc
       ELSE Raise(PyException(MsgNoResult)) /\ UNCHANGED retval
    /\ UNCHANGED <<data, other, browserVars, field,
                   resultVars, snapshot, errorShot, response>>

----------------------------------------------------------------------------
(* except / finally, lines 355-372 *)

\* page.screenshot(path="/tmp/error_screenshot.png") in try/except: pass
Screenshot ==
    \/ snapshot' = "saved" /\ errorShot' = "this"
    \/ snapshot' = "failed" /\ UNCHANGED errorShot

\* except PlaywrightTimeout, lines 355-362
ExceptTimeout ==
    /\ pc = "except_timeout"
    /\ Screenshot
    /\ exc' = PyException(MsgTimeout)
    /\ Goto("finally", FALSE)
    /\ UNCHANGED <<data, other, browserVars, field,
                   resultVars, retval, response>>

\* variant: the screenshot is not guarded, its error replaces the one caught
ExceptOtherUnguardedScreenshot ==
    /\ pc = "except_other"
    /\ \/ snapshot' = "saved" /\ errorShot' = "this" /\ UNCHANGED exc
       \/ snapshot' = "failed" /\ exc' = PwTimeout /\ UNCHANGED errorShot
    /\ Goto("finally", FALSE)
    /\ UNCHANGED <<data, other, browserVars, field, resultVars, retval, response>>

\* except Exception, lines 363-370
ExceptOther ==
    /\ pc = "except_other"
    /\ Screenshot
    /\ Goto("finally", FALSE)
    /\ UNCHANGED <<data, other, browserVars, field,
                   resultVars, exc, retval, response>>

\* finally: await browser.close(), lines 371-372
Finally ==
    /\ pc = "finally"
    /\ closed' = closed + 1
    /\ Goto(IF exc = NoExc THEN "tasar_return" ELSE "tasar_except", FALSE)
    /\ UNCHANGED <<data, other, launched, field, resultVars,
                   exc, endVars>>

----------------------------------------------------------------------------
(* tasar: lines 385-391 *)

TasarReturn ==
    /\ pc = "tasar_return"
    /\ response' = RespOk(retval)
    /\ Goto("done", FALSE)
    /\ UNCHANGED <<data, other, browserVars, field,
                   resultVars, exc, snapshot, errorShot, retval>>

TasarExcept ==
    /\ pc = "tasar_except"
    /\ response' = RespError(exc)
    /\ Goto("done", FALSE)
    /\ UNCHANGED <<data, other, browserVars, field,
                   resultVars, exc, snapshot, errorShot, retval>>

----------------------------------------------------------------------------

Next ==
    \/ Tasar
    \/ Launch
    \/ NewContext
    \/ NewPage
    \/ Navigate
    \/ CookieTry
    \/ CookiesAccepted
    \/ LoadState
    \/ PageShot
    \/ FormTry
    \/ Scroll
    \/ MarcaTry
    \/ MarcaOpen
    \/ MarcaOption
    \/ ModeloTry
    \/ ModeloOpen
    \/ ModeloOption
    \/ AnioTry
    \/ AnioOpen
    \/ AnioOption
    \/ KmTry
    \/ CpTry
    \/ SubmitTry
    \/ ResultTry
    \/ Fallback
    \/ Clean
    \/ ExceptTimeout
    \/ ExceptOther
    \/ Finally
    \/ TasarReturn
    \/ TasarExcept

Spec == Init /\ [][Next]_vars

----------------------------------------------------------------------------
(* The value clean-up on its own: the run is at line 345 with the form     *)
(* filled and submitted, and valor is any text the page may have yielded.  *)

(* A second request in flight.  The FastAPI event loop serves requests
   concurrently: every await of one run is a point where another run
   proceeds.  Of the second run only what touches state outside its own
   frame is kept: the error screenshot, written to the same fixed path.
   (The page_loaded screenshot of line 119 has a fixed path as well.) *)

\* the endpoint is called for the second request, line 376
OtherTasar ==
    /\ other = "idle"
    /\ other' = "running"
    /\ UNCHANGED <<pc, data, browserVars, i, tried, field, resultVars, exc,
                   endVars>>

\* an awaited call of the second run raises inside its try block
OtherRaise ==
    /\ other = "running"
    /\ other' = "except"
    /\ UNCHANGED <<pc, data, browserVars, i, tried, field, resultVars, exc,
                   endVars>>

\* the except clause of the second run, lines 355-370: its screenshot goes
\* to path="/tmp/error_screenshot.png", or fails and is passed over
OtherExcept ==
    /\ other = "except"
    /\ other' = "done"
    /\ \/ errorShot' = "other"
       \/ UNCHANGED errorShot
    /\ UNCHANGED <<pc, data, browserVars, i, tried, field, resultVars, exc,
                   snapshot, retval, response>>

\* the second run returns its value without an exception, line 351
OtherReturn ==
    /\ other = "running"
    /\ other' = "done"
    /\ UNCHANGED <<pc, data, browserVars, i, tried, field, resultVars, exc,
                   endVars>>

\* every awaited call returns or raises within its timeout (goto 30000 ms,
\* is_visible 1000 to 5000 ms, wait_for_timeout fixed), so a step that can be
\* taken is taken
SpecFair == Spec /\ WF_vars(Next)

NextConcurrent ==
    \/ Next
    \/ OtherTasar
    \/ OtherRaise
    \/ OtherExcept
    \/ OtherReturn

SpecConcurrent == Init /\ [][NextConcurrent]_vars

-----------------------------------------------------------------------------

InitClean ==
    /\ pc = "clean"
    /\ data \in Requests
    /\ launched = 1
    /\ closed = 0
    /\ i = 0
    /\ tried = <<>>
    /\ field = [f \in Fields |->
                  IF f \in {"km", "cp"} THEN "filled"
                  ELSE IF f = "submit" THEN "clicked" ELSE "selected"]
    /\ valor \in CleanTexts
    /\ resultSeen = (valor # None)
    /\ scanned = ~Truthy(valor)
    /\ exc = NoExc
    /\ snapshot = "none"
    /\ retval = None
    /\ response = NoResponse
    /\ other = "idle"
    /\ errorShot = "absent"

NextClean ==
    \/ Clean
    \/ ExceptOther
    \/ Finally
    \/ TasarReturn
    \/ TasarExcept

SpecClean == InitClean /\ [][NextClean]_vars

----------------------------------------------------------------------------
(* Properties *)

Done == pc = "done"

\* the one response every failure is answered with
FailureResponse == [ok |-> FALSE, valor |-> None, error |-> GenericError]

\* texts that are internal to the run: exception messages, selector text
InternalTexts == {MsgMarca, MsgNoResult, MsgTimeout, MsgPwTimeout, MsgPwError}

\* a monetary pattern starts at k: a run of digits and separators holding at
\* least one digit, optional whitespace, the currency symbol
MoneyAt(t, k) ==
    LET n == RunLen(t, k, NumChars)
        m == RunLen(t, k + n, SpaceChars)
    IN  /\ n >= 1
        /\ \E j \in k..(k + n - 1) : IsDigit(t[j])
        /\ k + n + m <= Len(t)
        /\ IsEuro(t[k + n + m])

ContainsMoney(t) == t # None /\ \E k \in 1..Len(t) : MoneyAt(t, k)

\* the first monetary pattern of t, surrounding text removed
FirstMoney(t) ==
    LET k == CHOOSE s \in 1..Len(t) :
                 MoneyAt(t, s) /\ \A s2 \in 1..(s - 1) : ~MoneyAt(t, s2)
    IN  SubSeq(t, k, k + RunLen(t, k, NumChars)
                       + RunLen(t, k + RunLen(t, k, NumChars), SpaceChars))

Selected(f) == field[f] = "selected"

\* C1: every response of tasar has ok=true with valor present and error
\* absent, or ok=false with a non-empty error and valor absent
C1_ResponseShape ==
    Done =>
        IF response.ok
        THEN response.valor # None /\ response.error = None
        ELSE /\ response.error \notin {None, <<>>, <<"">>}
             /\ response.valor = None

C1_Witness == Done /\ response.ok /\ Truthy(response.valor)

\* C2: at the end of every run each launched browser has been closed exactly
\* once, and no browser is ever closed that was not launched
C2_LaunchMatchedByClose ==
    /\ closed <= launched
    /\ Done => closed = launched

\* C3: when no brand selector is visible the response is the generic failure
\* and carries no text of the exception raised inside the run
C3_BrandMissingGenericError ==
    Done /\ field["marca"] = "notfound" =>
        /\ response = FailureResponse
        /\ response.error # exc.msg
        /\ response.error \notin InternalTexts

C3_Witness ==
    Done /\ field["marca"] = "notfound" /\ exc.msg = MsgMarca
         /\ ~response.ok

\* C4: when no model selector is visible the response is the generic failure
\* and the error screenshot was attempted
C4_ModelMissingFails ==
    Done /\ field["modelo"] = "notfound" =>
        /\ response = FailureResponse
        /\ snapshot # "none"

\* the dependency order of the form steps (brand, model, year, then the rest)
FieldRank(f) ==
    CASE f = "marca" -> 1
      [] f = "modelo" -> 2
      [] f = "anio" -> 3
      [] f = "km" -> 4
      [] f = "cp" -> 5
      [] f = "submit" -> 6

\* C5: a form step acts only while every later step is still untouched:
\* brand, then model, then year, then mileage, postal code, submit, with no
\* step revisited
C5_FieldOrder ==
    [][\A f \in Fields :
          field'[f] # field[f] =>
              \A g \in Fields :
                  FieldRank(g) > FieldRank(f) => field[g] = "unset"]_vars

C5_Witness ==
    /\ data.version # <<>>
    /\ Selected("marca") /\ Selected("modelo") /\ Selected("anio")
    /\ field["km"] = "filled" /\ field["cp"] = "filled"
    /\ field["submit"] = "clicked"

\* C6: with a non-empty version and brand, model and year selected, a run
\* that extracted a monetary result answers ok=true, and a run that fails
\* fails in the result extraction, after the whole form was gone through
C6_VersionNeverFatal ==
    Done /\ data.version # <<>>
         /\ Selected("marca") /\ Selected("modelo") /\ Selected("anio") =>
        /\ ContainsMoney(valor) => response.ok
        /\ ~response.ok =>
              /\ field["submit"] # "unset"
              /\ exc.msg \in {MsgNoResult, MsgPwError}

C6_Witness ==
    Done /\ data.version # <<>>
         /\ Selected("marca") /\ Selected("modelo") /\ Selected("anio")
         /\ response.ok /\ ContainsMoney(response.valor)

\* C7: every exception that leaves the run is answered with the same
\* response, whatever its cause and text
C7_UniformFailure == Done /\ exc # NoExc => response = FailureResponse

C7_Witness == Done /\ exc.msg = MsgTimeout /\ response = FailureResponse

\* C8: every value answered with ok=true contains a monetary pattern
C8_ValueIsMonetary == Done /\ response.ok => ContainsMoney(response.valor)

\* C9: from a text containing a monetary pattern the value answered is
\* exactly the first such pattern
C9_FirstMonetaryPattern ==
    Done /\ ContainsMoney(valor) =>
        response.ok /\ response.valor = FirstMoney(valor)

\* C10 as stated: when no result selector was visible the run never answers
\* ok=true
C10_NoRegionNeverOk == Done /\ ~resultSeen => ~response.ok

\* C10 amended: when no result selector was visible, ok=true is answered
\* only with a price pattern found by the scan of the page markup, and
\* otherwise the answer is the generic failure
C10_NoRegionOkOnlyFromScan ==
    Done /\ ~resultSeen =>
        IF response.ok
        THEN /\ scanned
             /\ ContainsMoney(response.valor)
             /\ response.valor = valor
        ELSE response = FailureResponse

C10_Witness == Done /\ ~resultSeen /\ scanned /\ response.ok

\* C11: the mileage, postal-code and submit steps are only ever started with
\* brand, model and year all selected
C11_SubmitOnlyAfterFatalFields ==
    \A f \in {"km", "cp", "submit"} :
        field[f] # "unset" =>
            Selected("marca") /\ Selected("modelo") /\ Selected("anio")

\* C12: when the run decides its outcome with a region text that holds no
\* monetary pattern, the page markup has been scanned
C12_FallbackOnNoPattern ==
    pc = "clean" /\ valor # None /\ ~ContainsMoney(valor) => scanned

\* C13: the submit control is clicked only with the mileage and the postal
\* code both filled
C13_FilledBeforeSubmit ==
    field["submit"] \in {"clicked", "click_failed"} =>
        field["km"] = "filled" /\ field["cp"] = "filled"

\* C14: once a click on a submit candidate was attempted, no later
\* candidate is clicked
C14_SubmitClickedOnce ==
    [][field["submit"] = "click_failed" =>
          field'["submit"] # "clicked"]_vars

\* C15: the cookie loop never raises and leaves only for the load-state
\* wait, it walks its selectors once in list order, and the first click
\* that succeeds ends it
C15_ConsentNeverFails ==
    [][/\ pc = "cookies" =>
             /\ exc' = NoExc
             /\ pc' \in {"cookies", "cookies_accepted", "load_state"}
             /\ pc' = "cookies" => i' = i + 1
             /\ pc' = "load_state" => i = NumCookieSelectors
       /\ pc = "cookies_accepted" => exc' = NoExc /\ pc' = "load_state"
       /\ pc' \in {"cookies", "cookies_accepted"} =>
             pc \in {"goto", "cookies"}]_vars

C15_Witness == pc = "cookies_accepted"

\* the number of strategies listed for a field
NumSelectors(f) ==
    CASE f = "marca" -> NumMarcaSelectors
      [] f = "modelo" -> NumModeloSelectors
      [] f = "anio" -> NumAnioSelectors
      [] f = "km" -> NumKmSelectors
      [] f = "cp" -> NumCpSelectors
      [] f = "submit" -> NumSubmitSelectors

\* the strategy with this outcome had a visible element
WasVisible(o) == o \notin {"hidden", "raises"}

StillResolving(st) == st \in {"unset", "searching", "click_failed"}
ControlChosen(st) == st \in {"found", "filled", "clicked"}

\* C16: in every form block the strategies are queried in listed order; the
\* control chosen is that of the first strategy found visible (a raising
\* query counts as not visible), nothing is queried after it, and NotFound
\* is the outcome exactly when all strategies were queried and none was
\* visible
C16_FirstVisibleStrategy ==
    [][\A f \in Fields :
          /\ StillResolving(field[f]) /\ ControlChosen(field'[f]) =>
                /\ Len(tried) = i - 1
                /\ \A j \in 1..Len(tried) : ~WasVisible(tried[j])
          /\ StillResolving(field[f]) /\ field'[f] = "notfound" =>
                /\ i = NumSelectors(f)
                /\ Len(tried) = i - 1
                /\ \A j \in 1..Len(tried) : ~WasVisible(tried[j])
          /\ StillResolving(field[f]) /\ StillResolving(field'[f])
                /\ field'[f] # field[f] /\ pc' = pc =>
                i' = i + 1 /\ Len(tried') = i
          /\ ~StillResolving(field[f]) => ~StillResolving(field'[f])]_vars

C18_RunsShareNothing ==
    snapshot = "saved" => errorShot = "this"

\* C19: a run that ends in success has clicked a submit control
C19_OkOnlyAfterSubmit ==
    Done /\ response.ok => field["submit"] = "clicked"

\* C20: every run eventually ends with its response produced and every
\* browser it launched closed
C20_TerminatesClosed ==
    <>(Done /\ closed = launched)

====
